---- MODULE Spec2Model ----
(***************************************************************************)
(* Model of pymatgen/io/qchem/sets.py: the QChemDictSet builder, which      *)
(* merges defaults, derived settings and caller overrides into the named    *)
(* sections of a Q-Chem input, and the module-level CMIRS_SETTINGS table    *)
(* it reads.                                                                *)
(*                                                                          *)
(* Python values are modelled as strings: a dict is a function from key     *)
(* strings to value strings, None is the sentinel None, a Python int stored *)
(* in a dict is written "int:<n>", and an optional dict argument is a       *)
(* record [some |-> BOOLEAN, d |-> dict].  A dict that the code aliases     *)
(* (the caller's opt/scan/new_geom_opt mappings, the table entry bound to   *)
(* mypcm_nonels) is kept in one place and read through an accessor, so a    *)
(* write through one name is seen through the other.                        *)
(***************************************************************************)
EXTENDS Integers, Sequences, FiniteSets, TLC

VARIABLES table, heap, pc, last, nbuilds, thr

vars == <<table, heap, pc, last, nbuilds, thr>>

-----------------------------------------------------------------------------
(* Python values and dicts *)

None == "<None>"

NoErr == "ok"

EmptyDict == [k \in {} |-> None]

NoDict == [some |-> FALSE, d |-> EmptyDict]

SomeDict(d) == [some |-> TRUE, d |-> d]

Put(d, k, v) == [x \in (DOMAIN d) \cup {k} |-> IF x = k THEN v ELSE d[x]]

UpdateKeep(d, e) == [x \in (DOMAIN d) \cup (DOMAIN e) |-> IF x \in DOMAIN d THEN d[x] ELSE e[x]]

Update(d, e) == [x \in (DOMAIN d) \cup (DOMAIN e) |-> IF x \in DOMAIN e THEN e[x] ELSE d[x]]

Get(d, k) == IF k \in DOMAIN d THEN d[k] ELSE None

Truthy(v) == v /= None /\ v /= ""

PyInt(n) == "int:" \o ToString(n)

(* str.lower() on the identifiers the model uses *)
Lower(s) ==
    CASE s = "RADII" -> "radii"
      [] s = "Radii" -> "radii"
      [] s = "METHOD" -> "method"
      [] s = "SCF_CONVERGENCE" -> "scf_convergence"
      [] s = "RHOISO" -> "rhoiso"
      [] s = "A" -> "a"
      [] s = "dft_D" -> "dft_d"
      [] s = "OPT" -> "opt"
      [] s = "Opt" -> "opt"
      [] s = "TS" -> "ts"
      [] s = "PES_SCAN" -> "pes_scan"
      [] s = "SP" -> "sp"
      [] s = "FIXED" -> "fixed"
      [] s = "CONSTRAINT" -> "constraint"
      [] s = "MAXITER" -> "maxiter"
      [] s = "PRINT" -> "print"
      [] s = "DIELST" -> "dielst"
      [] s = "DFT_D" -> "dft_d"
      [] OTHER -> s

(* int(s) for the decimal strings the model uses; -1 when s is not a number *)
MaxParse == 20

ParseInt(s) ==
    IF \E n \in 0..MaxParse : ToString(n) = s
    THEN CHOOSE n \in 0..MaxParse : ToString(n) = s
    ELSE -1

-----------------------------------------------------------------------------
(* lower_and_check_unique of pymatgen.io.qchem.utils *)

LowerKeys(d) == {Lower(k) : k \in DOMAIN d}

HasDuplicate(d) == Cardinality(LowerKeys(d)) < Cardinality(DOMAIN d)

lower_and_check_unique(d) ==
    [k \in LowerKeys(d) |-> d[CHOOSE k0 \in DOMAIN d : Lower(k0) = k]]

-----------------------------------------------------------------------------
(* The module-level table, as the module is loaded *)

Rho001 == "0.001"

Rho0005 == "0.0005"

Coeffs(a, b, c, d, gamma, solvrho) ==
    [a |-> a, b |-> b, c |-> c, d |-> d, gamma |-> gamma, solvrho |-> solvrho]

SolventEntry(r1, r5, dielst) == (Rho001 :> r1) @@ (Rho0005 :> r5) @@ ("dielst" :> dielst)

CMIRS_SETTINGS ==
    ("water" :> SolventEntry(
        Coeffs("-0.006736", "0.032698", "-1249.6", "-21.405", "3.7", "0.05"),
        Coeffs("-0.006496", "0.050833", "-566.7", "-30.503", "3.2", "0.05"),
        "78.39"))
    @@ ("benzene" :> SolventEntry(
        Coeffs("-0.00522", "0.01294", None, None, None, "0.0421"),
        Coeffs("-0.00572", "0.01116", None, None, None, "0.0421"),
        "2.28"))
    @@ ("cyclohexane" :> SolventEntry(
        Coeffs("-0.00938", "0.03184", None, None, None, "0.0396"),
        Coeffs("-0.00721", "0.05618", None, None, None, "0.0396"),
        "2.02"))
    @@ ("dimethyl sulfoxide" :> SolventEntry(
        Coeffs("-0.00951", "0.044791", None, "-162.07", "4.1", "0.05279"),
        Coeffs("-0.002523", "0.011757", None, "-817.93", "4.3", "0.05279"),
        "47"))
    @@ ("acetonitrile" :> SolventEntry(
        Coeffs("-0.008178", "0.045278", None, "-0.33914", "1.3", "0.03764"),
        Coeffs("-0.003805", "0.03223", None, "-0.44492", "1.2", "0.03764"),
        "36.64"))

-----------------------------------------------------------------------------
(* Defaults local to one call of QChemDictSet.__init__ *)

pcm_defaults ==
    [heavypoints |-> "194", hpoints |-> "194", radii |-> "uff", theory |-> "cpcm",
     vdwscale |-> "1.1"]

svp_defaults == [rhoiso |-> Rho001, nptleb |-> "1202", itrngr |-> "2", irotgr |-> "2"]

plots_defaults == [grid_spacing |-> "0.05", total_density |-> "0"]

(* Error kinds, one per raise site (and per implicit exception) *)
ErrDftRung == "ValueError: dft_rung should be between 1 and 5"

ErrSolvation == "ValueError: only one of PCM, ISOSVP, SMD, CMIRS"

ErrCustomSmd == "ValueError: user-defined SMD requires custom_smd"

ErrCmirsSolvent == "KeyError: CMIRS_SETTINGS[cmirs_solvent]"

ErrNboVersion == "RuntimeError: nbo params version should only be set to 7"

ErrMaxiter == "RuntimeError: max # of optimization cycles must be the same"

ErrNoNbo == "RuntimeError: can't overwrite nbo params when NBO is not being run"

ErrNoGeomOpt == "RuntimeError: can't overwrite geom_opt params when not using the new optimizer"

ErrRhoiso == "RuntimeError: CMIRS is only parameterized for RHOISO 0.001 or 0.0005"

ErrSolventMethod == "KeyError: myrem[solvent_method]"

ErrDuplicate == "Exception: duplicate key after lower()"

ErrScfConv == "ValueError: int(scf_convergence)"

ErrNoScanVariables == "ValueError: cannot run a pes_scan job without some variable to scan over"

(* the exception class of each error *)
ExceptionClass(e) ==
    CASE e \in {ErrDftRung, ErrSolvation, ErrCustomSmd, ErrScfConv, ErrNoScanVariables} -> "ValueError"
      [] e \in {ErrCmirsSolvent, ErrSolventMethod} -> "KeyError"
      [] e \in {ErrNboVersion, ErrMaxiter, ErrNoNbo, ErrNoGeomOpt, ErrRhoiso} -> "RuntimeError"
      [] e = ErrDuplicate -> "Exception"
      [] OTHER -> "none"

WarnSolvent == "The solvent section will be ignored unless solvent_method=pcm"

WarnIdefesr0 == "Setting IDEFESR=0 will disable the CMIRS calculation"

WarnIdefesr1 == "Setting IDEFESR=1 will have no effect unless you specify a cmirs_solvent"

WarnDielst == "Setting DIELST will have no effect unless solvent_method=isosvp"

-----------------------------------------------------------------------------
(* The frame of one call of QChemDictSet.__init__: its local names, the     *)
(* module table it can reach (tab) and the caller's mappings it was handed  *)
(* (c_opt, c_scan, c_ngo).                                                  *)

Fail(m, e) == [m EXCEPT !.err = e]

Warn(m, w) == [m EXCEPT !.warns = @ \cup {w}]

(* myopt is the caller's opt_variables when one was passed (line 292) *)
MyOpt(m) == IF m.a.opt_variables.some THEN m.c_opt ELSE m.opt

SetMyOpt(m, d) == IF m.a.opt_variables.some THEN [m EXCEPT !.c_opt = d] ELSE [m EXCEPT !.opt = d]

(* myscan is the caller's scan_variables when one was passed (line 297) *)
MyScan(m) == IF m.a.scan_variables.some THEN m.c_scan ELSE m.scan

SetMyScan(m, d) == IF m.a.scan_variables.some THEN [m EXCEPT !.c_scan = d] ELSE [m EXCEPT !.scan = d]

(* mypcm_nonels is the table's own dict once line 378 has bound it *)
MyPcmNonels(m) == IF m.nonels_ref = None THEN m.nonels ELSE m.tab[m.nonels_ref][m.nonels_rho]

SetMyPcmNonels(m, d) ==
    IF m.nonels_ref = None
    THEN [m EXCEPT !.nonels = d]
    ELSE [m EXCEPT !.tab[m.nonels_ref][m.nonels_rho] = d]

(* lines 256-317 *)
Seed(a, tab) ==
    [a |-> a,
     tab |-> tab,
     c_opt |-> a.opt_variables.d,
     c_scan |-> a.scan_variables.d,
     c_ngo |-> a.new_geom_opt.d,
     opt |-> EmptyDict,
     scan |-> EmptyDict,
     pcm |-> EmptyDict,
     solvent |-> EmptyDict,
     smx |-> EmptyDict,
     vdw |-> EmptyDict,
     plots |-> EmptyDict,
     svp |-> EmptyDict,
     nonels |-> EmptyDict,
     nonels_ref |-> None,
     nonels_rho |-> None,
     nbo |-> NoDict,
     geom_opt |-> NoDict,
     rem |-> [job_type |-> a.job_type,
              basis |-> a.basis_set,
              max_scf_cycles |-> ToString(a.max_scf_cycles),
              gen_scfman |-> "true",
              xc_grid |-> "3",
              thresh |-> "14",
              s2thresh |-> "16",
              scf_algorithm |-> a.scf_algorithm,
              resp_charges |-> "true",
              symmetry |-> "false",
              sym_ignore |-> "true"],
     err |-> NoErr,
     warns |-> {}]

DftRungShifted(m) ==
    IF m.err /= NoErr THEN m
    ELSE CASE m.a.dft_rung = 1 -> [m EXCEPT !.rem = Put(@, "method", "b3lyp")]
           [] m.a.dft_rung = 2 -> [m EXCEPT !.rem = Put(@, "method", "b3lyp")]
           [] m.a.dft_rung = 3 ->
                [m EXCEPT !.rem = Put(Put(@, "method", "wb97xd"), "dft_D", "D3_BJ")]
           [] m.a.dft_rung = 4 -> [m EXCEPT !.rem = Put(@, "method", "wb97xv")]
           [] m.a.dft_rung = 5 -> [m EXCEPT !.rem = Put(@, "method", "wb97mv")]
           [] OTHER -> Fail(m, ErrDftRung)

(* lines 319-331 *)
DftRung(m) ==
    IF m.err /= NoErr THEN m
    ELSE CASE m.a.dft_rung = 1 -> [m EXCEPT !.rem = Put(@, "method", "b3lyp")]
           [] m.a.dft_rung = 2 ->
                [m EXCEPT !.rem = Put(Put(@, "method", "b3lyp"), "dft_D", "D3_BJ")]
           [] m.a.dft_rung = 3 -> [m EXCEPT !.rem = Put(@, "method", "wb97xd")]
           [] m.a.dft_rung = 4 -> [m EXCEPT !.rem = Put(@, "method", "wb97xv")]
           [] m.a.dft_rung = 5 -> [m EXCEPT !.rem = Put(@, "method", "wb97mv")]
           [] OTHER -> Fail(m, ErrDftRung)

(* the job type compared as written *)
GeomOptMaxCyclesCaseSensitive(m) ==
    IF m.err /= NoErr THEN m
    ELSE IF m.a.job_type \in {"opt", "ts", "pes_scan"}
         THEN [m EXCEPT !.rem = Put(@, "geom_opt_max_cycles", ToString(m.a.geom_opt_max_cycles))]
         ELSE m

(* lines 333-334 *)
GeomOptMaxCycles(m) ==
    IF m.err /= NoErr THEN m
    ELSE IF Lower(m.a.job_type) \in {"opt", "ts", "pes_scan"}
         THEN [m EXCEPT !.rem = Put(@, "geom_opt_max_cycles", ToString(m.a.geom_opt_max_cycles))]
         ELSE m

(* lines 336-339 *)
solvent_def(a) ==
    Cardinality({i \in 1..4 :
        <<a.pcm_dielectric, a.isosvp_dielectric, a.smd_solvent, a.cmirs_solvent>>[i] /= None})

SolvationCheckLate(m) ==
    IF m.err /= NoErr THEN m
    ELSE IF solvent_def(m.a) > 2 THEN Fail(m, ErrSolvation) ELSE m

(* lines 336-341 *)
SolvationCheck(m) ==
    IF m.err /= NoErr THEN m
    ELSE IF solvent_def(m.a) > 1 THEN Fail(m, ErrSolvation) ELSE m

(* lines 343-346 *)
Pcm(m) ==
    IF m.err /= NoErr \/ m.a.pcm_dielectric = None THEN m
    ELSE [m EXCEPT !.pcm = pcm_defaults,
                   !.solvent = Put(@, "dielectric", m.a.pcm_dielectric),
                   !.rem = Put(@, "solvent_method", "pcm")]

(* gen_scfman left as seeded *)
IsosvpKeepsScfman(m) ==
    IF m.err /= NoErr \/ m.a.isosvp_dielectric = None THEN m
    ELSE [m EXCEPT !.svp = Put(svp_defaults, "dielst", m.a.isosvp_dielectric),
                   !.rem = Put(@, "solvent_method", "isosvp")]

(* lines 348-352 *)
Isosvp(m) ==
    IF m.err /= NoErr \/ m.a.isosvp_dielectric = None THEN m
    ELSE [m EXCEPT !.svp = Put(svp_defaults, "dielst", m.a.isosvp_dielectric),
                   !.rem = Put(Put(@, "solvent_method", "isosvp"), "gen_scfman", "false")]

(* the custom_smd check made for "custom" alone *)
SmdCustomOnly(m) ==
    IF m.err /= NoErr \/ m.a.smd_solvent = None THEN m
    ELSE LET m1 == [m EXCEPT
                      !.smx = Put(@, "solvent",
                                  IF m.a.smd_solvent = "custom" THEN "other" ELSE m.a.smd_solvent),
                      !.rem = Put(Put(@, "solvent_method", "smd"), "ideriv", "1")]
         IN IF m.a.smd_solvent = "custom" /\ m.a.custom_smd = None
            THEN Fail(m1, ErrCustomSmd)
            ELSE m1

(* lines 354-368 *)
Smd(m) ==
    IF m.err /= NoErr \/ m.a.smd_solvent = None THEN m
    ELSE LET m1 == [m EXCEPT
                      !.smx = Put(@, "solvent",
                                  IF m.a.smd_solvent = "custom" THEN "other" ELSE m.a.smd_solvent),
                      !.rem = Put(Put(@, "solvent_method", "smd"), "ideriv", "1")]
         IN IF m.a.smd_solvent \in {"custom", "other"} /\ m.a.custom_smd = None
            THEN Fail(m1, ErrCustomSmd)
            ELSE m1

(* lines 370-378: the svp defaults, the dielectric looked up in the table,  *)
(* and mypcm_nonels bound to the table's own dict for the default rhoiso    *)
CmirsSelect(m) ==
    IF m.err /= NoErr \/ m.a.cmirs_solvent = None THEN m
    ELSE LET m1 == [m EXCEPT
                      !.svp = svp_defaults,
                      !.rem = Put(Put(@, "solvent_method", "isosvp"), "gen_scfman", "false")]
         IN IF m.a.cmirs_solvent \notin DOMAIN m.tab
            THEN Fail(m1, ErrCmirsSolvent)
            ELSE [m1 EXCEPT
                    !.svp = Put(Put(Put(@, "dielst", m.tab[m.a.cmirs_solvent]["dielst"]),
                                    "idefesr", "1"), "ipnrf", "1"),
                    !.nonels_ref = m.a.cmirs_solvent,
                    !.nonels_rho = svp_defaults["rhoiso"]]

(* line 379 *)
CmirsDelta(m) ==
    IF m.err /= NoErr \/ m.a.cmirs_solvent = None THEN m
    ELSE SetMyPcmNonels(m, Put(MyPcmNonels(m), "delta", "7"))

(* line 380 *)
CmirsGaulag(m) ==
    IF m.err /= NoErr \/ m.a.cmirs_solvent = None THEN m
    ELSE SetMyPcmNonels(m, Put(MyPcmNonels(m), "gaulag_n", "40"))

(* lines 370-380 *)
Cmirs(m) == CmirsGaulag(CmirsDelta(CmirsSelect(m)))

(* lines 382-385 *)
PlotCubes(m) ==
    IF m.err /= NoErr \/ ~m.a.plot_cubes THEN m
    ELSE [m EXCEPT !.plots = plots_defaults,
                   !.rem = Put(Put(@, "plots", "true"), "make_cube_files", "true")]

(* the version entry copied along with the others *)
NboKeepsVersion(m) ==
    IF m.err /= NoErr \/ ~m.a.nbo_params.some THEN m
    ELSE LET p == m.a.nbo_params.d
             m1 == [m EXCEPT !.rem = Put(@, "nbo", "true")]
         IN IF "version" \in DOMAIN p /\ p["version"] /= PyInt(7)
            THEN Fail(m1, ErrNboVersion)
            ELSE [m1 EXCEPT
                    !.rem = IF "version" \in DOMAIN p THEN Put(@, "nbo_external", "true") ELSE @,
                    !.nbo = SomeDict(p)]

(* lines 387-398 *)
Nbo(m) ==
    IF m.err /= NoErr \/ ~m.a.nbo_params.some THEN m
    ELSE LET p == m.a.nbo_params.d
             m1 == [m EXCEPT !.rem = Put(@, "nbo", "true")]
             copy == [k \in (DOMAIN p) \ {"version"} |-> p[k]]
         IN IF "version" \in DOMAIN p /\ p["version"] /= PyInt(7)
            THEN Fail(m1, ErrNboVersion)
            ELSE [m1 EXCEPT
                    !.rem = IF "version" \in DOMAIN p THEN Put(@, "nbo_external", "true") ELSE @,
                    !.nbo = SomeDict(copy)]

(* lines 400-410: a missing maxiter is written into the caller's mapping *)
NewGeomOpt(m) ==
    IF m.err /= NoErr \/ ~m.a.new_geom_opt.some THEN m
    ELSE LET m1 == [m EXCEPT !.rem = Put(@, "geom_opt2", "3")]
             cycles == ToString(m.a.geom_opt_max_cycles)
         IN IF "maxiter" \in DOMAIN m.c_ngo
            THEN IF m.c_ngo["maxiter"] /= cycles
                 THEN Fail(m1, ErrMaxiter)
                 ELSE [m1 EXCEPT !.geom_opt = SomeDict(m.c_ngo)]
            ELSE LET filled == Put(m.c_ngo, "maxiter", cycles)
                 IN [m1 EXCEPT !.c_ngo = filled, !.geom_opt = SomeDict(filled)]

-----------------------------------------------------------------------------
(* The override merge, lines 412-497: one step per section of               *)
(* overwrite_inputs, in the mapping's iteration order.  overwrite_inputs is *)
(* a sequence of <<section name, dict>> with distinct names.                *)

ReselectNonelsStale(m, v) ==
    LET cur == MyPcmNonels(m)
        src == m.tab[m.a.cmirs_solvent][m.svp["rhoiso"]]
    IN SetMyPcmNonels(m, [k2 \in DOMAIN cur |->
                            IF Truthy(Get(src, k2)) THEN src[k2] ELSE cur[k2]])

(* lines 474-476: for each key of mypcm_nonels, take the table's value for  *)
(* the new rhoiso when that value is truthy                                 *)
ReselectNonels(m, v) ==
    LET cur == MyPcmNonels(m)
        src == m.tab[m.a.cmirs_solvent][v]
    IN SetMyPcmNonels(m, [k2 \in DOMAIN cur |->
                            IF Truthy(Get(src, k2)) THEN src[k2] ELSE cur[k2]])

(* lines 467-476 *)
SvpRhoiso(m, t) ==
    IF m.err /= NoErr \/ "rhoiso" \notin DOMAIN t \/ m.a.cmirs_solvent = None THEN m
    ELSE IF t["rhoiso"] \notin {Rho001, Rho0005}
         THEN Fail(m, ErrRhoiso)
         ELSE ReselectNonels(m, t["rhoiso"])

(* lines 477-486 *)
SvpIdefesr(m, t) ==
    IF m.err /= NoErr \/ "idefesr" \notin DOMAIN t THEN m
    ELSE IF m.a.cmirs_solvent /= None /\ t["idefesr"] = "0" THEN Warn(m, WarnIdefesr0)
         ELSE IF m.a.cmirs_solvent = None /\ t["idefesr"] = "1" THEN Warn(m, WarnIdefesr1)
         ELSE m

(* lines 487-491 *)
SvpDielst(m, t) ==
    IF m.err /= NoErr \/ "dielst" \notin DOMAIN t THEN m
    ELSE IF "solvent_method" \notin DOMAIN m.rem THEN Fail(m, ErrSolventMethod)
         ELSE IF m.rem["solvent_method"] /= "isosvp" THEN Warn(m, WarnDielst)
         ELSE m

(* lines 464-493 *)
MergeSvp(m, t) ==
    LET m1 == SvpDielst(SvpIdefesr(SvpRhoiso(m, t), t), t)
    IN IF m1.err /= NoErr THEN m1 ELSE [m1 EXCEPT !.svp = Update(@, t)]

(* lines 422-427 *)
MergeSolvent(m, t) ==
    IF "solvent_method" \notin DOMAIN m.rem THEN Fail(m, ErrSolventMethod)
    ELSE LET m1 == IF m.rem["solvent_method"] /= "pcm" THEN Warn(m, WarnSolvent) ELSE m
         IN [m1 EXCEPT !.solvent = Update(@, t)]

(* lines 436-441 *)
MergeVdw(m, t) ==
    [m EXCEPT !.vdw = Update(@, t), !.pcm = Put(@, "radii", "read")]

(* the sections whose keys the loop normalizes *)
Recognized ==
    {"rem", "pcm", "solvent", "smx", "scan", "van_der_waals", "plots", "nbo", "geom_opt",
     "opt", "svp", "pcm_nonels"}

(* the tests made on truth value, which an empty mapping fails too *)
SectionMissingOrEmpty(m, sec) ==
    \/ sec = "nbo" /\ (~m.nbo.some \/ m.nbo.d = EmptyDict)
    \/ sec = "geom_opt" /\ (~m.geom_opt.some \/ m.geom_opt.d = EmptyDict)

(* lines 447 and 453: mynbo is None, my_geom_opt is None *)
SectionMissing(m, sec) ==
    \/ sec = "nbo" /\ ~m.nbo.some
    \/ sec = "geom_opt" /\ ~m.geom_opt.some

(* lines 414-497, one pass of the loop body *)
MergeSection(m, sec, sec_dict) ==
    IF m.err /= NoErr \/ sec \notin Recognized THEN m
    ELSE IF SectionMissing(m, sec)
         THEN Fail(m, IF sec = "nbo" THEN ErrNoNbo ELSE ErrNoGeomOpt)
    ELSE IF HasDuplicate(sec_dict) THEN Fail(m, ErrDuplicate)
    ELSE LET t == lower_and_check_unique(sec_dict)
         IN CASE sec = "rem" -> [m EXCEPT !.rem = Update(@, t)]
              [] sec = "pcm" -> [m EXCEPT !.pcm = Update(@, t)]
              [] sec = "solvent" -> MergeSolvent(m, t)
              [] sec = "smx" -> [m EXCEPT !.smx = Update(@, t)]
              [] sec = "scan" -> SetMyScan(m, Update(MyScan(m), t))
              [] sec = "van_der_waals" -> MergeVdw(m, t)
              [] sec = "plots" -> [m EXCEPT !.plots = Update(@, t)]
              [] sec = "nbo" -> [m EXCEPT !.nbo.d = Update(@, t)]
              [] sec = "geom_opt" -> [m EXCEPT !.geom_opt.d = Update(@, t)]
              [] sec = "opt" -> SetMyOpt(m, Update(MyOpt(m), t))
              [] sec = "svp" -> MergeSvp(m, t)
              [] sec = "pcm_nonels" -> SetMyPcmNonels(m, Update(MyPcmNonels(m), t))

RECURSIVE MergeFrom(_, _, _)
MergeFrom(m, ov, i) ==
    IF i > Len(ov) THEN m
    ELSE MergeFrom(MergeSection(m, ov[i][1], ov[i][2]), ov, i + 1)

(* lines 412-497 *)
OverrideMerge(m, ov) == MergeFrom(m, ov, 1)

(* lines 499-508 *)
ScfConvergenceFloor == 8

(* the floor written whatever the caller's value is *)
ExtraScfPrintLoosens(m) ==
    IF m.err /= NoErr \/ ~m.a.extra_scf_print THEN m
    ELSE LET m1 == [m EXCEPT !.rem = Put(@, "scf_final_print", "3")]
         IN IF "scf_convergence" \notin DOMAIN m1.rem
            THEN [m1 EXCEPT !.rem = Put(@, "scf_convergence", ToString(ScfConvergenceFloor))]
            ELSE IF ParseInt(m1.rem["scf_convergence"]) < 0 THEN Fail(m1, ErrScfConv)
            ELSE [m1 EXCEPT !.rem = Put(@, "scf_convergence", ToString(ScfConvergenceFloor))]

ExtraScfPrint(m) ==
    IF m.err /= NoErr \/ ~m.a.extra_scf_print THEN m
    ELSE LET m1 == [m EXCEPT !.rem = Put(@, "scf_final_print", "3")]
         IN IF "scf_convergence" \notin DOMAIN m1.rem
            THEN [m1 EXCEPT !.rem = Put(@, "scf_convergence", ToString(ScfConvergenceFloor))]
            ELSE IF ParseInt(m1.rem["scf_convergence"]) < 0 THEN Fail(m1, ErrScfConv)
            ELSE IF ParseInt(m1.rem["scf_convergence"]) < ScfConvergenceFloor
                 THEN [m1 EXCEPT !.rem = Put(@, "scf_convergence", ToString(ScfConvergenceFloor))]
                 ELSE m1

OmitNull(d) == [k \in {x \in DOMAIN d : d[x] /= None} |-> d[k]]

SectionsOmitNull(m) ==
    [rem |-> m.rem,
     opt |-> MyOpt(m),
     pcm |-> m.pcm,
     solvent |-> m.solvent,
     smx |-> m.smx,
     scan |-> MyScan(m),
     van_der_waals |-> m.vdw,
     plots |-> m.plots,
     nbo |-> m.nbo,
     geom_opt |-> m.geom_opt,
     svp |-> m.svp,
     pcm_nonels |-> OmitNull(MyPcmNonels(m))]

(* lines 510-525: the sections handed to QCInput.__init__ *)
Sections(m) ==
    [rem |-> m.rem,
     opt |-> MyOpt(m),
     pcm |-> m.pcm,
     solvent |-> m.solvent,
     smx |-> m.smx,
     scan |-> MyScan(m),
     van_der_waals |-> m.vdw,
     plots |-> m.plots,
     nbo |-> m.nbo,
     geom_opt |-> m.geom_opt,
     svp |-> m.svp,
     pcm_nonels |-> MyPcmNonels(m)]

NoSections ==
    [rem |-> EmptyDict, opt |-> EmptyDict, pcm |-> EmptyDict, solvent |-> EmptyDict,
     smx |-> EmptyDict, scan |-> EmptyDict, van_der_waals |-> EmptyDict, plots |-> EmptyDict,
     nbo |-> NoDict, geom_opt |-> NoDict, svp |-> EmptyDict, pcm_nonels |-> EmptyDict]

(* the optimizer's cycle count compared before the NBO version *)
DeriveOptimizerFirst(m) ==
    Nbo(NewGeomOpt(PlotCubes(Cmirs(Smd(Isosvp(Pcm(SolvationCheck(GeomOptMaxCycles(DftRung(m))))))))))

(* lines 319-410: everything before the override merge *)
Derive(m) ==
    NewGeomOpt(Nbo(PlotCubes(Cmirs(Smd(Isosvp(Pcm(SolvationCheck(GeomOptMaxCycles(DftRung(m))))))))))

(* lines 256-525: the frame when __init__ returns or raises *)
Run(a, tab) == ExtraScfPrint(OverrideMerge(Derive(Seed(a, tab)), a.overwrite_inputs))

(* a raise placed after the call of line 510 *)
SuperInitAlways(m) == [called |-> TRUE, sections |-> Sections(m)]

(* lines 510-525: super().__init__ is reached only when nothing raised      *)
(* before it, and stores the sections on the object                         *)
SuperInit(m) ==
    IF m.err /= NoErr
    THEN [called |-> FALSE, sections |-> NoSections]
    ELSE [called |-> TRUE, sections |-> Sections(m)]

(* What a call leaves behind: the sections on the object (none when it      *)
(* raised), the local sections as they stood when it returned or raised,    *)
(* the error, the warnings, the table and the caller's mappings             *)
Outcome(m) ==
    [sections |-> SuperInit(m).sections,
     handed |-> SuperInit(m).called,
     invoked |-> TRUE,
     cls |-> "QChemDictSet",
     p |-> m.a,
     locals |-> Sections(m),
     err |-> m.err,
     warns |-> m.warns,
     tab |-> m.tab,
     c_opt |-> m.c_opt,
     c_scan |-> m.c_scan,
     c_ngo |-> m.c_ngo]

(* QChemDictSet(...) *)
QChemDictSet(a, tab) == Outcome(Run(a, tab))

-----------------------------------------------------------------------------
(* PESScanSet, lines 1144-1283.  p holds the preset's own parameters.       *)

(* lines 1265-1283: the arguments PESScanSet passes on; the builder's       *)
(* defaults stand for the parameters the preset does not have               *)
PesScanCall(p) ==
    [p EXCEPT !.job_type = "pes_scan", !.geom_opt_max_cycles = 200, !.new_geom_opt = NoDict,
              !.extra_scf_print = FALSE]

(* lines 1262-1263: what the raise leaves behind *)
PesScanRaised(p, tab) ==
    [sections |-> NoSections, handed |-> FALSE, invoked |-> FALSE, cls |-> "PESScanSet",
     p |-> p,
     locals |-> NoSections, err |-> ErrNoScanVariables, warns |-> {}, tab |-> tab,
     c_opt |-> p.opt_variables.d, c_scan |-> p.scan_variables.d, c_ngo |-> p.new_geom_opt.d]

(* lines 1258-1283 *)
PESScanSet(p, tab) ==
    IF ~p.scan_variables.some
    THEN PesScanRaised(p, tab)
    ELSE [QChemDictSet(PesScanCall(p), tab) EXCEPT !.cls = "PESScanSet", !.p = p]

-----------------------------------------------------------------------------
(* QChemDictSet.write, lines 527-535.  The files are a mapping from path to *)
(* content.                                                                 *)

NoFiles == EmptyDict

(* os.path.dirname on the paths the model uses *)
Dirname(path) ==
    CASE path = "calc/mol.qin" -> "calc"
      [] path = "/scratch/run1/mol.qin" -> "/scratch/run1"
      [] OTHER -> ""

(* os.path.join(dir, name) for a relative name *)
PathJoin(dir, name) == IF dir = "" THEN name ELSE dir \o "/" \o name

(* QCInput.write_file: the rendered input, str(self), goes to the path *)
Rendered == "str(self)"

write_file(files, input_file) == Put(files, input_file, Rendered)

writeWithNewline(files, a, input_file) ==
    IF a.smd_solvent \in {"custom", "other"}
    THEN Put(write_file(files, input_file), PathJoin(Dirname(input_file), "solvent_data"),
             a.custom_smd \o "\n")
    ELSE write_file(files, input_file)

(* lines 532-535 *)
write(files, a, input_file) ==
    IF a.smd_solvent \in {"custom", "other"}
    THEN Put(write_file(files, input_file), PathJoin(Dirname(input_file), "solvent_data"),
             a.custom_smd)
    ELSE write_file(files, input_file)

-----------------------------------------------------------------------------
(* The calls the model makes.  Each family varies some arguments of         *)
(* QChemDictSet.__init__ over a small set and leaves the others at the      *)
(* defaults of its signature (lines 135-157).                               *)

MaxRung == 6

MaxOverrides == 2

MaxBuilds == 2

DefaultArgs ==
    [job_type |-> "sp",
     basis_set |-> "def2-tzvpd",
     scf_algorithm |-> "diis",
     dft_rung |-> 4,
     pcm_dielectric |-> None,
     isosvp_dielectric |-> None,
     smd_solvent |-> None,
     cmirs_solvent |-> None,
     custom_smd |-> None,
     opt_variables |-> NoDict,
     scan_variables |-> NoDict,
     max_scf_cycles |-> 100,
     geom_opt_max_cycles |-> 200,
     plot_cubes |-> FALSE,
     nbo_params |-> NoDict,
     new_geom_opt |-> NoDict,
     overwrite_inputs |-> <<>>,
     extra_scf_print |-> FALSE]

Rungs == 0..MaxRung

Selectors == {"pcm_dielectric", "isosvp_dielectric", "smd_solvent", "cmirs_solvent"}

SelectorValue(f) ==
    CASE f = "pcm_dielectric" -> "10.0"
      [] f = "isosvp_dielectric" -> "78.39"
      [] f = "smd_solvent" -> "water"
      [] f = "cmirs_solvent" -> "water"

WithSelectors(a, S) ==
    [a EXCEPT !.pcm_dielectric = IF "pcm_dielectric" \in S THEN SelectorValue("pcm_dielectric") ELSE None,
              !.isosvp_dielectric = IF "isosvp_dielectric" \in S THEN SelectorValue("isosvp_dielectric") ELSE None,
              !.smd_solvent = IF "smd_solvent" \in S THEN SelectorValue("smd_solvent") ELSE None,
              !.cmirs_solvent = IF "cmirs_solvent" \in S THEN SelectorValue("cmirs_solvent") ELSE None]

(* every tier with every subset of the four solvation selectors *)
ArgsSolvation ==
    {[WithSelectors(DefaultArgs, S) EXCEPT !.dft_rung = r] : r \in Rungs, S \in SUBSET Selectors}

CmirsNames ==
    {"water", "benzene", "cyclohexane", "dimethyl sulfoxide", "acetonitrile", "toluene"}

ArgsCmirs == {[DefaultArgs EXCEPT !.cmirs_solvent = s] : s \in CmirsNames}

ArgsSmd ==
    {[DefaultArgs EXCEPT !.smd_solvent = s, !.custom_smd = c] :
        s \in {"water", "custom", "other"}, c \in {None, "18.5,1.415,0.00,0.735,20.2,0.00,0.00"}}

(* the override sections the calls choose from *)
OverrideMenu ==
    {<<"rem", [METHOD |-> "pbe"]>>,
     <<"pcm", [radii |-> "bondi"]>>,
     <<"pcm", [RADII |-> "bondi", radii |-> "uff"]>>,
     <<"van_der_waals", [k \in {"16"} |-> "3.0"]>>,
     <<"solvent", [dielectric |-> "20.0"]>>,
     <<"svp", [RHOISO |-> Rho0005]>>,
     <<"svp", [rhoiso |-> Rho001]>>,
     <<"svp", [rhoiso |-> "0.01"]>>,
     <<"pcm_nonels", [A |-> "-0.5"]>>}

RECURSIVE OverridesUpTo(_)
OverridesUpTo(n) ==
    IF n = 0 THEN {<<>>}
    ELSE LET shorter == OverridesUpTo(n - 1)
         IN shorter \cup
            {Append(ov, e) : ov \in {o \in shorter : Len(o) = n - 1},
                             e \in OverrideMenu}

DistinctSections(ov) == \A i, j \in 1..Len(ov) : i /= j => ov[i][1] /= ov[j][1]

(* a Python dict holds each section name once *)
Overrides == {ov \in OverridesUpTo(MaxOverrides) : DistinctSections(ov)}

Modes == {{}} \cup {{f} : f \in Selectors}

ArgsOverride ==
    {[WithSelectors(DefaultArgs, S) EXCEPT !.overwrite_inputs = ov] :
        S \in Modes, ov \in Overrides}

RemOverrides ==
    {<<>>,
     <<<<"rem", [SCF_CONVERGENCE |-> "5"]>>>>,
     <<<<"rem", [scf_convergence |-> "9", scf_final_print |-> "1"]>>>>,
     <<<<"rem", [scf_convergence |-> "tight"]>>>>,
     <<<<"plots", [grid_spacing |-> "0.1"]>>, <<"rem", [scf_final_print |-> "1"]>>>>}

ArgsScfPrint ==
    {[DefaultArgs EXCEPT !.overwrite_inputs = ov, !.extra_scf_print = x, !.plot_cubes = pl] :
        ov \in RemOverrides, x \in BOOLEAN, pl \in BOOLEAN}

CallerDicts == {NoDict, SomeDict([CONSTRAINT |-> "tors 2 3 4 5 25.0"])}

CallerScans == {NoDict, SomeDict([stre |-> "3 6 1.5 1.9 0.1"])}

CallerGeomOpts ==
    {NoDict, SomeDict(EmptyDict), SomeDict([maxiter |-> "200"]), SomeDict([maxiter |-> "100"]),
     SomeDict([coordinates |-> "redundant"]), SomeDict([maxiter |-> PyInt(200)]),
     SomeDict([MAXITER |-> "200"])}

CallerOverrides ==
    {<<>>,
     <<<<"opt", [FIXED |-> "2 XY"]>>>>,
     <<<<"scan", [tors |-> "1 2 3 4 -180 180 15"]>>>>,
     <<<<"opt", [FIXED |-> "2 XY"]>>, <<"svp", [rhoiso |-> "0.01"]>>>>,
     <<<<"opt", [constraint |-> "stre 1 2 1.1"]>>>>}

(* the mappings the caller owns: opt_variables, scan_variables, nbo_params, *)
(* new_geom_opt, overwrite_inputs                                           *)
ArgsCaller ==
    {[DefaultArgs EXCEPT !.job_type = "opt",
                         !.opt_variables = o,
                         !.scan_variables = sc,
                         !.new_geom_opt = g,
                         !.cmirs_solvent = c,
                         !.overwrite_inputs = ov] :
        o \in CallerDicts, sc \in CallerScans, g \in CallerGeomOpts,
        c \in {None, "water"}, ov \in CallerOverrides}

(* nbo_params and new_geom_opt supplied or not, with overrides of their     *)
(* sections                                                                 *)
NboParams ==
    {NoDict, SomeDict(EmptyDict), SomeDict([version |-> PyInt(7)]),
     SomeDict([version |-> PyInt(7), PRINT |-> "2"]), SomeDict([version |-> PyInt(5)]),
     SomeDict([version |-> "7"]), SomeDict([PRINT |-> "2"])}

FeatureOverrides ==
    {<<>>,
     <<<<"nbo", [print |-> "3"]>>>>,
     <<<<"geom_opt", [coordinates |-> "delocalized"]>>>>,
     <<<<"geom_opt", [coordinates |-> "delocalized"]>>, <<"nbo", [print |-> "3"]>>>>}

ArgsNbo ==
    {[DefaultArgs EXCEPT !.job_type = "opt", !.nbo_params = n, !.new_geom_opt = g,
                         !.overwrite_inputs = ov] :
        n \in NboParams, g \in {NoDict, SomeDict(EmptyDict)}, ov \in FeatureOverrides}

(* an override of the svp dielectric under each solvation model *)
ArgsDielst ==
    {[WithSelectors(DefaultArgs, S) EXCEPT !.overwrite_inputs = <<<<"svp", d>>>>] :
        S \in Modes, d \in {[dielst |-> "50.0"], [DIELST |-> "50.0"]}}

(* the tier-2 dispersion keyword with an override of the same keyword *)
ArgsDispersion ==
    {[DefaultArgs EXCEPT !.dft_rung = 2, !.overwrite_inputs = ov] :
        ov \in {<<>>, <<<<"rem", [dft_d |-> "D3_ZERO"]>>>>, <<<<"rem", [DFT_D |-> "D3_ZERO"]>>>>}}

(* the new optimizer with an override of either cycle count *)
ArgsMaxiterOverride ==
    {[DefaultArgs EXCEPT !.job_type = "opt", !.new_geom_opt = g, !.overwrite_inputs = ov] :
        g \in {SomeDict(EmptyDict), SomeDict([maxiter |-> "200"])},
        ov \in {<<<<"geom_opt", [maxiter |-> "50"]>>>>,
                <<<<"geom_opt", [maxiter |-> "200"]>>>>,
                <<<<"rem", [geom_opt_max_cycles |-> "50"]>>>>}}

(* an explicit functional under every tier *)
ArgsFunctional ==
    {[DefaultArgs EXCEPT !.dft_rung = r, !.overwrite_inputs = <<<<"rem", [method |-> "pbe"]>>>>] :
        r \in Rungs}

(* every job type, in the cases callers write them, with and without the    *)
(* new optimizer                                                            *)
JobTypes == {"sp", "force", "freq", "opt", "ts", "pes_scan", "OPT", "Opt", "TS", "PES_SCAN"}

ArgsJobType ==
    {[DefaultArgs EXCEPT !.job_type = jt, !.new_geom_opt = g] :
        jt \in JobTypes, g \in {NoDict, SomeDict(EmptyDict)}}

(* calls that break several rules at once: a tier out of range, two         *)
(* selectors or a selector the code rejects, an NBO version other than 7, a *)
(* maxiter that differs from the cycle count, overrides of absent sections  *)
ArgsMulti ==
    {[DefaultArgs EXCEPT !.job_type = "opt", !.dft_rung = r,
                         !.pcm_dielectric = s[1], !.smd_solvent = s[2], !.cmirs_solvent = s[3],
                         !.nbo_params = n, !.new_geom_opt = g, !.overwrite_inputs = ov] :
        r \in {0, 4},
        s \in {<<None, None, None>>, <<None, "custom", None>>, <<"10.0", "custom", None>>,
               <<None, None, "toluene">>, <<None, "other", "toluene">>},
        n \in {NoDict, SomeDict([version |-> PyInt(5)])},
        g \in {NoDict, SomeDict([maxiter |-> "100"])},
        ov \in {<<>>,
                <<<<"geom_opt", [coordinates |-> "delocalized"]>>, <<"nbo", [print |-> "3"]>>>>,
                <<<<"nbo", [print |-> "3"]>>, <<"geom_opt", [coordinates |-> "delocalized"]>>>>}}

(* The other presets, lines 538-1141.  p holds the preset's own parameters; *)
(* the builder's defaults stand for the parameters a preset does not have.  *)

(* the keyword arguments every preset passes on (lines 645-662, 769-788,    *)
(* 891-909, 1009-1025, 1125-1141)                                           *)
PassedOn(p, jt) ==
    [DefaultArgs EXCEPT !.job_type = jt,
                        !.dft_rung = p.dft_rung,
                        !.pcm_dielectric = p.pcm_dielectric,
                        !.isosvp_dielectric = p.isosvp_dielectric,
                        !.smd_solvent = p.smd_solvent,
                        !.cmirs_solvent = p.cmirs_solvent,
                        !.custom_smd = p.custom_smd,
                        !.basis_set = p.basis_set,
                        !.scf_algorithm = p.scf_algorithm,
                        !.max_scf_cycles = p.max_scf_cycles,
                        !.plot_cubes = p.plot_cubes,
                        !.nbo_params = p.nbo_params,
                        !.overwrite_inputs = p.overwrite_inputs]

(* lines 645-662 *)
SinglePointCall(p) == [PassedOn(p, "sp") EXCEPT !.extra_scf_print = p.extra_scf_print]

OptCallWithoutNewGeomOpt(p) ==
    [PassedOn(p, "opt") EXCEPT !.opt_variables = p.opt_variables,
                               !.geom_opt_max_cycles = p.geom_opt_max_cycles]

(* lines 769-788 *)
OptCall(p) ==
    [PassedOn(p, "opt") EXCEPT !.opt_variables = p.opt_variables,
                               !.geom_opt_max_cycles = p.geom_opt_max_cycles,
                               !.new_geom_opt = p.new_geom_opt]

(* lines 891-909 *)
TransitionStateCall(p) ==
    [PassedOn(p, "ts") EXCEPT !.opt_variables = p.opt_variables,
                              !.geom_opt_max_cycles = p.geom_opt_max_cycles]

(* lines 1009-1025 *)
ForceCall(p) == PassedOn(p, "force")

(* lines 1125-1141 *)
FreqCall(p) == PassedOn(p, "freq")

PresetNames == {"SinglePointSet", "OptSet", "TransitionStateSet", "ForceSet", "FreqSet"}

PresetCall(cls, p) ==
    CASE cls = "SinglePointSet" -> SinglePointCall(p)
      [] cls = "OptSet" -> OptCall(p)
      [] cls = "TransitionStateSet" -> TransitionStateCall(p)
      [] cls = "ForceSet" -> ForceCall(p)
      [] cls = "FreqSet" -> FreqCall(p)

(* SinglePointSet(...), OptSet(...), TransitionStateSet(...), ForceSet(...), *)
(* FreqSet(...)                                                             *)
Preset(cls, p, tab) == [QChemDictSet(PresetCall(cls, p), tab) EXCEPT !.cls = cls, !.p = p]

(* the parameters of the presets: their defaults, and a call that sets      *)
(* every parameter to something else                                        *)
PresetDefaults == [DefaultArgs EXCEPT !.basis_set = "def2-tzvppd", !.dft_rung = 3]

PresetAlt ==
    [DefaultArgs EXCEPT !.basis_set = "6-31g*",
                        !.scf_algorithm = "gdm",
                        !.dft_rung = 2,
                        !.custom_smd = "18.5,1.415,0.00,0.735,20.2,0.00,0.00",
                        !.max_scf_cycles = 50,
                        !.plot_cubes = TRUE,
                        !.nbo_params = SomeDict([version |-> PyInt(7)]),
                        !.opt_variables = SomeDict([CONSTRAINT |-> "tors 2 3 4 5 25.0"]),
                        !.scan_variables = SomeDict([stre |-> "3 6 1.5 1.9 0.1"]),
                        !.geom_opt_max_cycles = 100,
                        !.new_geom_opt = SomeDict([maxiter |-> "100"]),
                        !.overwrite_inputs = <<<<"rem", [METHOD |-> "pbe"]>>>>,
                        !.extra_scf_print = TRUE]

PresetCalls ==
    {WithSelectors(q, S) : q \in {PresetDefaults, PresetAlt}, S \in Modes}
        \cup {[PresetDefaults EXCEPT !.dft_rung = 0],
              [PresetDefaults EXCEPT !.smd_solvent = "custom"]}

(* the parameters a preset does not have keep the builder's defaults *)
Fit(cls, q) ==
    [q EXCEPT !.opt_variables =
                  IF cls \in {"OptSet", "TransitionStateSet", "PESScanSet"} THEN @ ELSE NoDict,
              !.scan_variables = IF cls = "PESScanSet" THEN @ ELSE NoDict,
              !.geom_opt_max_cycles =
                  IF cls \in {"OptSet", "TransitionStateSet"} THEN @
                  ELSE DefaultArgs.geom_opt_max_cycles,
              !.new_geom_opt = IF cls = "OptSet" THEN @ ELSE NoDict,
              !.extra_scf_print = IF cls = "SinglePointSet" THEN @ ELSE FALSE]

ArgsPreset(cls) == {Fit(cls, q) : q \in PresetCalls}

(* the PES-scan preset: no scan variables, none in the mapping, one; with   *)
(* arguments the builder accepts and arguments it rejects                   *)
PesScanDefaults ==
    [DefaultArgs EXCEPT !.job_type = "pes_scan", !.basis_set = "def2-tzvppd", !.dft_rung = 3]

ScanVariables == {NoDict, SomeDict(EmptyDict), SomeDict([stre |-> "3 6 1.5 1.9 0.1"])}

ArgsScan ==
    {[WithSelectors(PesScanDefaults, S) EXCEPT !.scan_variables = sc, !.dft_rung = r] :
        sc \in ScanVariables, r \in {0, 3},
        S \in {{}, {"pcm_dielectric"}, {"pcm_dielectric", "smd_solvent"}}}
        \cup {Fit("PESScanSet", q) : q \in PresetCalls}

InputFiles == {"mol.qin", "calc/mol.qin"}

Args ==
    ArgsSolvation \cup ArgsCmirs \cup ArgsSmd \cup ArgsOverride \cup ArgsScfPrint \cup ArgsCaller
        \cup ArgsNbo \cup ArgsDielst \cup ArgsDispersion \cup ArgsMaxiterOverride
        \cup ArgsMulti
        \cup ArgsJobType
        \cup ArgsFunctional

-----------------------------------------------------------------------------
(* Sequences of calls in one process.  The caller builds a set (Build),     *)
(* then lets go of it (Release); the table outlives both, and the caller    *)
(* keeps the new_geom_opt mapping it passed for its next call (Rebuild).    *)

NoLast ==
    [a |-> DefaultArgs, sections |-> NoSections, locals |-> NoSections, err |-> NoErr,
     warns |-> {}, tab_before |-> CMIRS_SETTINGS, handed |-> FALSE, invoked |-> FALSE,
     cls |-> "", files |-> NoFiles, p |-> DefaultArgs]

(* the caller's mappings after the call; ngo_src is new_geom_opt as the     *)
(* caller made it, before any call was handed it                            *)
NoHeap == [opt |-> NoDict, scan |-> NoDict, ngo |-> NoDict, ngo_src |-> NoDict]

Init ==
    /\ table = CMIRS_SETTINGS
    /\ heap = NoHeap
    /\ pc = "idle"
    /\ last = NoLast
    /\ nbuilds = 0
    /\ thr = <<>>

Returned(a, out, src) ==
    /\ table' = out.tab
    /\ heap' = [opt |-> [some |-> a.opt_variables.some, d |-> out.c_opt],
                scan |-> [some |-> a.scan_variables.some, d |-> out.c_scan],
                ngo |-> [some |-> a.new_geom_opt.some, d |-> out.c_ngo],
                ngo_src |-> src]
    /\ last' = [a |-> a, sections |-> out.sections, locals |-> out.locals, err |-> out.err,
                warns |-> out.warns, tab_before |-> table, handed |-> out.handed,
                invoked |-> out.invoked, cls |-> out.cls, files |-> NoFiles, p |-> out.p]
    /\ pc' = "built"
    /\ nbuilds' = nbuilds + 1
    /\ UNCHANGED thr

Call(a) == Returned(a, QChemDictSet(a, table), a.new_geom_opt)

Build ==
    /\ pc = "idle"
    /\ nbuilds < MaxBuilds
    /\ \E a \in Args : Call(a)

Recall(a) == Returned(a, QChemDictSet(a, table), heap.ngo_src)

(* a second call handed the very mapping an earlier call was handed *)
Rebuild ==
    /\ pc = "idle"
    /\ nbuilds < MaxBuilds
    /\ heap.ngo.some
    /\ \E c \in {100, 200} :
          Recall([DefaultArgs EXCEPT !.job_type = "opt", !.geom_opt_max_cycles = c,
                                     !.new_geom_opt = heap.ngo])

(* PESScanSet(...) *)
Scan ==
    /\ pc = "idle"
    /\ nbuilds < MaxBuilds
    /\ \E p \in ArgsScan : Returned(PesScanCall(p), PESScanSet(p, table), p.new_geom_opt)

(* one of the other five presets *)
BuildPreset ==
    /\ pc = "idle"
    /\ nbuilds < MaxBuilds
    /\ \E cls \in PresetNames :
          \E p \in ArgsPreset(cls) :
              Returned(PresetCall(cls, p), Preset(cls, p, table), p.new_geom_opt)

(* write(input_file) on the set the last call returned *)
Write ==
    /\ pc = "built"
    /\ last.err = NoErr
    /\ last.files = NoFiles
    /\ \E f \in InputFiles :
          last' = [last EXCEPT !.files = write(last.files, last.a, f)]
    /\ UNCHANGED <<table, heap, pc, nbuilds, thr>>

Release ==
    /\ pc = "built"
    /\ pc' = "idle"
    /\ last' = NoLast
    /\ heap' = [NoHeap EXCEPT !.ngo = heap.ngo, !.ngo_src = heap.ngo_src]
    /\ UNCHANGED <<table, nbuilds, thr>>

Next == Build \/ Rebuild \/ Scan \/ BuildPreset \/ Write \/ Release

Spec == Init /\ [][Next]_vars

-----------------------------------------------------------------------------
(* Two calls running in two threads of one process with no coordination     *)
(* (SpecThreads).  A thread's frame is its own; the table is the process's. *)
(* Each statement that reads or writes the table is a step of its own, and  *)
(* the statements between two of them, which touch only the frame, belong   *)
(* to the step before them.                                                 *)

Threads == {1, 2}

ThreadArgs ==
    {[DefaultArgs EXCEPT !.cmirs_solvent = c, !.overwrite_inputs = ov] :
        c \in {None, "water", "benzene"},
        ov \in {<<>>,
                <<<<"svp", [rhoiso |-> Rho0005]>>>>,
                <<<<"pcm_nonels", [a |-> "-0.5"]>>, <<"rem", [METHOD |-> "pbe"]>>>>}}

IdleThread == [at |-> "idle", m |-> Seed(DefaultArgs, CMIRS_SETTINGS), i |-> 0, sections |-> NoSections]

InitThreads ==
    /\ table = CMIRS_SETTINGS
    /\ heap = NoHeap
    /\ pc = "idle"
    /\ last = NoLast
    /\ nbuilds = 0
    /\ thr = [t \in Threads |-> IdleThread]

(* the thread's frame, reading the table as it is now *)
Frame(t) == [thr[t].m EXCEPT !.tab = table]

Stepped(t, at, m, i) ==
    /\ thr' = [thr EXCEPT ![t] = [@ EXCEPT !.at = at, !.m = m, !.i = i]]
    /\ table' = m.tab
    /\ UNCHANGED <<heap, pc, last, nbuilds>>

(* lines 256-378 *)
Enter(t) ==
    /\ thr[t].at = "idle"
    /\ \E a \in ThreadArgs :
          Stepped(t, "379",
                  CmirsSelect(Smd(Isosvp(Pcm(SolvationCheck(GeomOptMaxCycles(DftRung(Seed(a, table)))))))),
                  0)

(* line 379 *)
WriteDelta(t) ==
    /\ thr[t].at = "379"
    /\ Stepped(t, "380", CmirsDelta(Frame(t)), 0)

(* lines 380-412 *)
WriteGaulag(t) ==
    /\ thr[t].at = "380"
    /\ Stepped(t, "413", NewGeomOpt(Nbo(PlotCubes(CmirsGaulag(Frame(t))))), 1)

(* lines 413-497, one section of overwrite_inputs *)
MergeOne(t) ==
    /\ thr[t].at = "413"
    /\ thr[t].i <= Len(thr[t].m.a.overwrite_inputs)
    /\ Stepped(t, "413",
               MergeSection(Frame(t), thr[t].m.a.overwrite_inputs[thr[t].i][1],
                            thr[t].m.a.overwrite_inputs[thr[t].i][2]),
               thr[t].i + 1)

(* lines 499-525 *)
Finish(t) ==
    /\ thr[t].at = "413"
    /\ thr[t].i > Len(thr[t].m.a.overwrite_inputs)
    /\ thr' = [thr EXCEPT ![t] = [@ EXCEPT !.at = "done",
                                           !.m = ExtraScfPrint(Frame(t)),
                                           !.sections = Outcome(ExtraScfPrint(Frame(t))).sections]]
    /\ UNCHANGED <<table, heap, pc, last, nbuilds>>

NextThreads == \E t \in Threads : Enter(t) \/ WriteDelta(t) \/ WriteGaulag(t) \/ MergeOne(t) \/ Finish(t)

SpecThreads == InitThreads /\ [][NextThreads]_vars

-----------------------------------------------------------------------------
(* Properties of sequences of calls (Spec) *)

(* a call has returned or raised *)
Called == pc = "built"

(* ... and it was a call of the builder, directly or through a preset *)
Built == Called /\ last.invoked

Succeeded == Built /\ last.err = NoErr

SelectorsSet(a) ==
    {f \in Selectors :
        CASE f = "pcm_dielectric" -> a.pcm_dielectric /= None
          [] f = "isosvp_dielectric" -> a.isosvp_dielectric /= None
          [] f = "smd_solvent" -> a.smd_solvent /= None
          [] f = "cmirs_solvent" -> a.cmirs_solvent /= None}

SolvationSections == {"pcm", "solvent", "smx", "svp", "pcm_nonels"}

OverridesSection(a, sec) == \E i \in 1..Len(a.overwrite_inputs) : a.overwrite_inputs[i][1] = sec

(* C1: with a valid dft_rung, a call with two or more of the four solvation *)
(* selectors set fails with the conflicting-solvation error while the pcm,  *)
(* solvent, smx, svp and pcm_nonels sections are still empty and the table  *)
(* untouched; with at most one selector set that error is never raised.     *)
C1_ConflictingSolvation ==
    (Built /\ last.a.dft_rung \in 1..5) =>
        IF Cardinality(SelectorsSet(last.a)) >= 2
        THEN /\ last.err = ErrSolvation
             /\ \A s \in SolvationSections : last.locals[s] = EmptyDict
             /\ table = last.tab_before
        ELSE last.err /= ErrSolvation

C1_Witness ==
    /\ Built
    /\ last.a.dft_rung \in 1..5
    /\ SelectorsSet(last.a) = {"isosvp_dielectric", "cmirs_solvent"}
    /\ last.err = ErrSolvation

TierTable == <<"b3lyp", "b3lyp", "wb97xd", "wb97xv", "wb97mv">>

(* C2: without a rem override, a successful call with dft_rung in 1..5 has  *)
(* rem method equal to the tier table's entry and holds dft_D = D3_BJ       *)
(* exactly for tier 2; a call with dft_rung outside 1..5 fails with the     *)
(* dft_rung error.                                                          *)
C2_TierTable ==
    (Built /\ ~OverridesSection(last.a, "rem")) =>
        /\ (last.a.dft_rung \in 1..5 /\ last.err = NoErr) =>
              /\ last.sections.rem["method"] = TierTable[last.a.dft_rung]
              /\ ("dft_D" \in DOMAIN last.sections.rem) <=> (last.a.dft_rung = 2)
              /\ last.a.dft_rung = 2 => last.sections.rem["dft_D"] = "D3_BJ"
        /\ last.a.dft_rung \notin 1..5 => last.err = ErrDftRung

C2_Witness ==
    /\ Succeeded
    /\ last.a.dft_rung = 2
    /\ last.sections.rem["method"] = "b3lyp"
    /\ "dft_D" \in DOMAIN last.sections.rem

(* C3: the sections and the error of every call are those the same          *)
(* arguments give against the table as loaded, and every call leaves the    *)
(* CMIRS_SETTINGS table as it found it.                                     *)
C3_NoSharedState ==
    Built =>
        /\ table = last.tab_before
        /\ last.sections = QChemDictSet(last.a, CMIRS_SETTINGS).sections
        /\ last.err = QChemDictSet(last.a, CMIRS_SETTINGS).err

(* C5: a call leaves the caller's opt_variables, scan_variables and         *)
(* new_geom_opt mappings with the keys and values they had when passed      *)
(* (nbo_params and overwrite_inputs are never written by __init__).         *)
C5_InputsReadOnly ==
    Built =>
        /\ heap.opt = last.a.opt_variables
        /\ heap.scan = last.a.scan_variables
        /\ heap.ngo = last.a.new_geom_opt

SectionOf(secs, name) == IF name \in {"nbo", "geom_opt"} THEN secs[name].d ELSE secs[name]

CallerWins(i, k) ==
    LET sec == last.a.overwrite_inputs[i][1]
        d == last.a.overwrite_inputs[i][2]
    IN /\ Lower(k) \in DOMAIN SectionOf(last.sections, sec)
       /\ SectionOf(last.sections, sec)[Lower(k)] = d[k]

(* C6 as claimed: in every successful call, every key the caller supplies   *)
(* for a recognised section of overwrite_inputs holds the caller's value in *)
(* the final section, under the lower-cased key.                            *)
C6_CallerValueWins ==
    Succeeded =>
        \A i \in 1..Len(last.a.overwrite_inputs) :
            last.a.overwrite_inputs[i][1] \in Recognized =>
                \A k \in DOMAIN last.a.overwrite_inputs[i][2] : CallerWins(i, k)

RhoisoTo0005(d) == \E k \in DOMAIN d : Lower(k) = "rhoiso" /\ d[k] = Rho0005

(* the value a later step writes over the caller's, None when no step does *)
LaterValue(i, k) ==
    LET a == last.a
        ov == last.a.overwrite_inputs
        sec == last.a.overwrite_inputs[i][1]
        v == last.a.overwrite_inputs[i][2][k]
    IN IF sec = "pcm" /\ Lower(k) = "radii"
          /\ \E j \in (i + 1)..Len(ov) : ov[j][1] = "van_der_waals"
       THEN "read"
       ELSE IF sec = "pcm_nonels" /\ a.cmirs_solvent /= None
               /\ (\E j \in (i + 1)..Len(ov) : ov[j][1] = "svp" /\ RhoisoTo0005(ov[j][2]))
               /\ Truthy(Get(CMIRS_SETTINGS[a.cmirs_solvent][Rho0005], Lower(k)))
       THEN CMIRS_SETTINGS[a.cmirs_solvent][Rho0005][Lower(k)]
       ELSE IF sec = "rem" /\ a.extra_scf_print /\ Lower(k) = "scf_final_print"
       THEN "3"
       ELSE IF sec = "rem" /\ a.extra_scf_print /\ Lower(k) = "scf_convergence"
               /\ ParseInt(v) < 8
       THEN "8"
       ELSE None

(* C6 as amended: the caller's value stands in the final section except     *)
(* where a later step rewrites that key: pcm radii becomes "read" when a    *)
(* van_der_waals section follows the pcm section; a pcm_nonels coefficient  *)
(* becomes the table's 0.0005 entry when, with CMIRS active, an svp rhoiso  *)
(* override to "0.0005" follows the pcm_nonels section and that entry is    *)
(* not null; with extra_scf_print, rem scf_final_print becomes "3" and a    *)
(* rem scf_convergence below 8 becomes "8".                                 *)
C6_CallerValueWinsUnlessRewritten ==
    Succeeded =>
        \A i \in 1..Len(last.a.overwrite_inputs) :
            last.a.overwrite_inputs[i][1] \in Recognized =>
                \A k \in DOMAIN last.a.overwrite_inputs[i][2] :
                    IF LaterValue(i, k) = None
                    THEN CallerWins(i, k)
                    ELSE SectionOf(last.sections, last.a.overwrite_inputs[i][1])[Lower(k)]
                            = LaterValue(i, k)

C6_Witness ==
    /\ Succeeded
    /\ last.a.extra_scf_print
    /\ last.a.overwrite_inputs = <<<<"rem", [scf_convergence |-> "9", scf_final_print |-> "1"]>>>>
    /\ last.sections.rem["scf_convergence"] = "9"
    /\ last.sections.rem["scf_final_print"] = "3"

SameSections(once, twice) ==
    once.err = NoErr => twice.err = NoErr /\ Sections(twice) = Sections(once)

MergedOnce(a, tab) == OverrideMerge(Derive(Seed(a, tab)), a.overwrite_inputs)

MergedAgain(once) == SameSections(once, OverrideMerge(once, once.a.overwrite_inputs))

(* C7: when the override merge of a call succeeds, running the merge again  *)
(* with the same overwrite_inputs on the merged sections succeeds and       *)
(* leaves every section with the same keys and values.                      *)
C7_MergeIdempotent == Built => MergedAgain(MergedOnce(last.a, last.tab_before))

C7_Witness ==
    /\ Succeeded
    /\ last.a.cmirs_solvent = "water"
    /\ last.a.overwrite_inputs =
          <<<<"pcm_nonels", [A |-> "-0.5"]>>, <<"svp", [RHOISO |-> Rho0005]>>>>
    /\ last.sections.svp["rhoiso"] = Rho0005
    /\ last.sections.pcm_nonels["a"] = "-0.006496"

(* C8: in every successful call whose overwrite_inputs has a van_der_waals  *)
(* section, the final pcm section has radii = "read".                       *)
C8_VdwForcesRead ==
    (Succeeded /\ OverridesSection(last.a, "van_der_waals")) =>
        Get(last.sections.pcm, "radii") = "read"

SupportedCmirs == {"water", "benzene", "cyclohexane", "dimethyl sulfoxide", "acetonitrile"}

CoefficientKeys == {"a", "b", "c", "d", "gamma", "solvrho"}

C10_UnsupportedCmirsSolvent ==
    (Built /\ last.a.dft_rung \in 1..5 /\ SelectorsSet(last.a) = {"cmirs_solvent"}) =>
        IF last.a.cmirs_solvent \notin SupportedCmirs
        THEN last.err /= NoErr /\ ExceptionClass(last.err) = ExceptionClass(ErrDftRung)
        ELSE last.err /= ErrCmirsSolvent

(* a call that asks for nothing but what the claim at hand is about *)
Plain(a) ==
    /\ a.dft_rung \in 1..5
    /\ a.overwrite_inputs = <<>>
    /\ ~a.nbo_params.some
    /\ ~a.new_geom_opt.some
    /\ ~a.extra_scf_print

OnlySmd(a) == Plain(a) /\ SelectorsSet(a) = {"smd_solvent"}

(* C11 as stated: smd_solvent "custom" without custom_smd fails with the    *)
(* missing-custom-parameters error; "custom" with custom_smd succeeds with  *)
(* rem solvent_method "smd" and smx solvent "other"; every other name       *)
(* succeeds with smx solvent equal to the name, custom_smd given or not.    *)
C11_CustomSmd ==
    (Built /\ OnlySmd(last.a)) =>
        IF last.a.smd_solvent = "custom"
        THEN IF last.a.custom_smd = None
             THEN last.err = ErrCustomSmd
             ELSE /\ last.err = NoErr
                  /\ last.sections.rem["solvent_method"] = "smd"
                  /\ last.sections.smx["solvent"] = "other"
        ELSE /\ last.err = NoErr
             /\ last.sections.smx["solvent"] = last.a.smd_solvent

(* C11 amended: smd_solvent "custom" or "other" without custom_smd fails    *)
(* with the missing-custom-parameters error and with custom_smd succeeds    *)
(* with rem solvent_method "smd" and smx solvent "other"; every name other  *)
(* than these two succeeds with smx solvent equal to the name, custom_smd   *)
(* given or not.                                                            *)
C11_CustomOrOtherSmd ==
    (Built /\ OnlySmd(last.a)) =>
        IF last.a.smd_solvent \in {"custom", "other"}
        THEN IF last.a.custom_smd = None
             THEN last.err = ErrCustomSmd
             ELSE /\ last.err = NoErr
                  /\ last.sections.rem["solvent_method"] = "smd"
                  /\ last.sections.smx["solvent"] = "other"
        ELSE /\ last.err = NoErr
             /\ last.sections.rem["solvent_method"] = "smd"
             /\ last.sections.smx["solvent"] = last.a.smd_solvent

C11_Witness ==
    /\ Built
    /\ OnlySmd(last.a)
    /\ last.a.smd_solvent = "custom"
    /\ last.a.custom_smd /= None
    /\ last.err = NoErr
    /\ last.sections.smx["solvent"] = "other"

(* write has run on the set the last call returned *)
Written == Called /\ last.files /= NoFiles

(* the path of solvent_data beside each input file *)
SolventDataBeside(f) ==
    CASE f = "mol.qin" -> "solvent_data"
      [] f = "calc/mol.qin" -> "calc/solvent_data"

(* a user-defined SMD solvent: the names for which custom_smd is read *)
CustomSmdRequested(a) == a.smd_solvent \in {"custom", "other"}

(* C12: after write(input_file) on a successfully built set the files are   *)
(* the main input file and, if and only if a user-defined SMD solvent was   *)
(* requested, solvent_data in the directory of input_file, holding exactly  *)
(* the custom_smd string the caller supplied.                               *)
C12_WriteSolventData ==
    Written =>
        /\ last.err = NoErr
        /\ \E f \in InputFiles :
              /\ f \in DOMAIN last.files
              /\ last.files[f] = Rendered
              /\ IF CustomSmdRequested(last.a)
                 THEN /\ DOMAIN last.files = {f, SolventDataBeside(f)}
                      /\ last.files[SolventDataBeside(f)] = last.a.custom_smd
                      /\ last.a.custom_smd /= None
                 ELSE DOMAIN last.files = {f}

C12_Witness ==
    /\ Written
    /\ last.a.smd_solvent = "custom"
    /\ "calc/solvent_data" \in DOMAIN last.files
    /\ last.files["calc/solvent_data"] = "18.5,1.415,0.00,0.735,20.2,0.00,0.00"

(* a call whose only request beyond the defaults is the new optimizer *)
OnlyNewGeomOpt(a) ==
    /\ a.new_geom_opt.some
    /\ a.dft_rung \in 1..5
    /\ Cardinality(SelectorsSet(a)) <= 1
    /\ a.cmirs_solvent \in SupportedCmirs \cup {None}
    /\ a.smd_solvent \in {"custom", "other"} => a.custom_smd /= None
    /\ a.overwrite_inputs = <<>>
    /\ ~a.nbo_params.some
    /\ ~a.extra_scf_print

(* C13: with new_geom_opt supplied, an explicit maxiter equal to            *)
(* geom_opt_max_cycles, as the integer or as its decimal string, succeeds;  *)
(* an unequal one fails with the cycle-count mismatch error; without        *)
(* maxiter the built geom_opt section has maxiter = str(geom_opt_max_cycles);*)
(* every successful case has rem geom_opt2 = "3".                           *)
C13_NewOptimizerMaxiter ==
    (Built /\ OnlyNewGeomOpt(last.a)) =>
        /\ IF "maxiter" \in DOMAIN last.a.new_geom_opt.d
           THEN IF last.a.new_geom_opt.d["maxiter"] \in
                       {PyInt(last.a.geom_opt_max_cycles), ToString(last.a.geom_opt_max_cycles)}
                THEN last.err = NoErr
                ELSE last.err = ErrMaxiter
           ELSE /\ last.err = NoErr
                /\ last.sections.geom_opt.some
                /\ "maxiter" \in DOMAIN last.sections.geom_opt.d
                /\ last.sections.geom_opt.d["maxiter"] = ToString(last.a.geom_opt_max_cycles)
        /\ last.err = NoErr => /\ "geom_opt2" \in DOMAIN last.sections.rem
                               /\ last.sections.rem["geom_opt2"] = "3"

(* a call whose only request beyond the defaults is NBO *)
OnlyNbo(a) ==
    /\ a.nbo_params.some
    /\ a.dft_rung \in 1..5
    /\ Cardinality(SelectorsSet(a)) <= 1
    /\ a.cmirs_solvent \in SupportedCmirs \cup {None}
    /\ a.smd_solvent \in {"custom", "other"} => a.custom_smd /= None
    /\ "maxiter" \in DOMAIN a.new_geom_opt.d =>
           a.new_geom_opt.d["maxiter"] = ToString(a.geom_opt_max_cycles)
    /\ a.overwrite_inputs = <<>>
    /\ ~a.extra_scf_print

(* C14: with nbo_params supplied, even empty, a 'version' other than the    *)
(* integer 7 fails with the NBO-version error; otherwise the build succeeds *)
(* with rem nbo = "true", with rem nbo_external = "true" exactly when       *)
(* 'version' is present, and with an nbo section holding exactly the        *)
(* supplied pairs other than 'version', unchanged.                          *)
C14_NboParams ==
    (Built /\ OnlyNbo(last.a)) =>
        LET p == last.a.nbo_params.d
        IN IF "version" \in DOMAIN p /\ p["version"] /= PyInt(7)
           THEN last.err = ErrNboVersion
           ELSE /\ last.err = NoErr
                /\ "nbo" \in DOMAIN last.sections.rem
                /\ last.sections.rem["nbo"] = "true"
                /\ ("nbo_external" \in DOMAIN last.sections.rem) <=> ("version" \in DOMAIN p)
                /\ "nbo_external" \in DOMAIN last.sections.rem =>
                       last.sections.rem["nbo_external"] = "true"
                /\ last.sections.nbo.some
                /\ DOMAIN last.sections.nbo.d = (DOMAIN p) \ {"version"}
                /\ \A k \in DOMAIN last.sections.nbo.d : last.sections.nbo.d[k] = p[k]

C14_Witness ==
    /\ Built
    /\ OnlyNbo(last.a)
    /\ last.a.nbo_params.d = [version |-> PyInt(7), PRINT |-> "2"]
    /\ last.err = NoErr
    /\ last.sections.rem["nbo_external"] = "true"
    /\ last.sections.nbo.d = [PRINT |-> "2"]

(* C15: PESScanSet without scan variables, the mapping absent or holding no *)
(* variable, fails with its invalid-parameter error before the builder is   *)
(* invoked, whatever the other arguments; with at least one scan variable   *)
(* it invokes the builder with job type pes_scan.                           *)
C15_ScanNeedsVariables ==
    (Called /\ last.cls = "PESScanSet") =>
        IF ~last.a.scan_variables.some \/ last.a.scan_variables.d = EmptyDict
        THEN /\ last.err = ErrNoScanVariables
             /\ ~last.invoked
             /\ table = last.tab_before
        ELSE /\ last.invoked
             /\ last.a.job_type = "pes_scan"

(* a call that is valid but for its overwrite_inputs *)
ValidSelection(a) ==
    /\ a.dft_rung \in 1..5
    /\ Cardinality(SelectorsSet(a)) <= 1
    /\ a.cmirs_solvent \in SupportedCmirs \cup {None}
    /\ a.smd_solvent \in {"custom", "other"} => a.custom_smd /= None
    /\ ~a.nbo_params.some
    /\ ~a.new_geom_opt.some
    /\ ~a.extra_scf_print

(* the call overrides the one section sec and nothing else *)
OverridesOnly(a, sec) == Len(a.overwrite_inputs) = 1 /\ a.overwrite_inputs[1][1] = sec

(* C16: a 'solvent' section in overwrite_inputs is never fatal: the build   *)
(* completes with the caller's keys merged into the solvent section, and    *)
(* warns exactly when the solvent method is not "pcm" (ISOSVP, SMD, CMIRS   *)
(* or no solvation model at all).                                           *)
C16_SolventOverrideNeverFatal ==
    (Built /\ ValidSelection(last.a) /\ OverridesOnly(last.a, "solvent")) =>
        /\ last.err = NoErr
        /\ \A k \in DOMAIN last.a.overwrite_inputs[1][2] :
              /\ Lower(k) \in DOMAIN last.sections.solvent
              /\ last.sections.solvent[Lower(k)] = last.a.overwrite_inputs[1][2][k]
        /\ (WarnSolvent \in last.warns) <=> (last.a.pcm_dielectric = None)

(* C17: overriding the svp section's 'dielst' is never fatal: the build     *)
(* completes with the caller's dielst stored in the svp section, and warns  *)
(* exactly when the solvent method is not "isosvp" (PCM, SMD or no          *)
(* solvation model at all; ISOSVP and CMIRS give "isosvp").                 *)
C17_DielstOverrideNeverFatal ==
    (/\ Built
     /\ ValidSelection(last.a)
     /\ OverridesOnly(last.a, "svp")
     /\ LowerKeys(last.a.overwrite_inputs[1][2]) = {"dielst"}
     /\ Cardinality(DOMAIN last.a.overwrite_inputs[1][2]) = 1) =>
        /\ last.err = NoErr
        /\ \A k \in DOMAIN last.a.overwrite_inputs[1][2] :
              /\ "dielst" \in DOMAIN last.sections.svp
              /\ last.sections.svp["dielst"] = last.a.overwrite_inputs[1][2][k]
        /\ (WarnDielst \in last.warns) <=>
               (last.a.isosvp_dielectric = None /\ last.a.cmirs_solvent = None)

SectionNames ==
    {"rem", "pcm", "solvent", "smx", "opt", "scan", "van_der_waals", "plots", "nbo",
     "geom_opt", "svp", "pcm_nonels"}

(* no two keys of d are equal after case-folding *)
UniqueFolded(d) == \A k1, k2 \in DOMAIN d : Lower(k1) = Lower(k2) => k1 = k2

(* C18: in every section of every successfully built set no two keys are    *)
(* equal after case-folding, whatever the defaults, derived keys, caller's  *)
(* opt_variables, nbo_params and new_geom_opt keys and overrides were (a    *)
(* merge that would create such a pair fails).                              *)
C18_KeysUniqueAfterFolding ==
    Succeeded => \A name \in SectionNames : UniqueFolded(SectionOf(last.sections, name))

(* C19: every fatal error is raised before the sections are handed to the   *)
(* base initializer: a call that failed, whatever the failure, never        *)
(* reached the hand-over of line 510, left no section on the object and     *)
(* wrote no file.                                                           *)
C19_FailureBeforeHandOver ==
    (Called /\ last.err /= NoErr) =>
        /\ ~last.handed
        /\ last.sections = NoSections
        /\ last.files = NoFiles

C19_Witness ==
    /\ Built
    /\ last.err = ErrRhoiso
    /\ last.locals.svp /= EmptyDict
    /\ last.locals.rem /= EmptyDict
    /\ ~last.handed
    /\ last.sections = NoSections
    /\ last.files = NoFiles

(* a call in which nothing before the override merge fails *)
FeatureCall(a) ==
    /\ a.dft_rung \in 1..5
    /\ Cardinality(SelectorsSet(a)) <= 1
    /\ a.cmirs_solvent \in SupportedCmirs \cup {None}
    /\ a.smd_solvent \in {"custom", "other"} => a.custom_smd /= None
    /\ ~a.extra_scf_print
    /\ "version" \in DOMAIN a.nbo_params.d => a.nbo_params.d["version"] = PyInt(7)
    /\ "maxiter" \in DOMAIN a.new_geom_opt.d =>
           a.new_geom_opt.d["maxiter"] = ToString(a.geom_opt_max_cycles)

(* the keys of the call's only override section are in the built section *)
OnlyOverrideMerged(sec) ==
    \A k \in DOMAIN last.a.overwrite_inputs[1][2] :
        /\ Lower(k) \in DOMAIN SectionOf(last.sections, sec)
        /\ SectionOf(last.sections, sec)[Lower(k)] = last.a.overwrite_inputs[1][2][k]

(* C20: an 'nbo' override fails with the non-existent-section error if and  *)
(* only if nbo_params was not supplied, a 'geom_opt' override likewise if   *)
(* and only if new_geom_opt was not supplied; when the feature was          *)
(* requested, even with an empty mapping, the override keys are merged into *)
(* that section.                                                            *)
C20_OverrideNeedsFeature ==
    /\ (Built /\ FeatureCall(last.a) /\ OverridesOnly(last.a, "nbo")) =>
          IF last.a.nbo_params.some
          THEN last.err = NoErr /\ last.sections.nbo.some /\ OnlyOverrideMerged("nbo")
          ELSE last.err = ErrNoNbo
    /\ (Built /\ FeatureCall(last.a) /\ OverridesOnly(last.a, "geom_opt")) =>
          IF last.a.new_geom_opt.some
          THEN last.err = NoErr /\ last.sections.geom_opt.some /\ OnlyOverrideMerged("geom_opt")
          ELSE last.err = ErrNoGeomOpt
    /\ (Built /\ last.err = ErrNoNbo) =>
          OverridesSection(last.a, "nbo") /\ ~last.a.nbo_params.some
    /\ (Built /\ last.err = ErrNoGeomOpt) =>
          OverridesSection(last.a, "geom_opt") /\ ~last.a.new_geom_opt.some

C20_Witness ==
    /\ Built
    /\ FeatureCall(last.a)
    /\ OverridesOnly(last.a, "nbo")
    /\ last.a.nbo_params = SomeDict(EmptyDict)
    /\ last.err = NoErr
    /\ last.sections.nbo.d = [print |-> "3"]

(* C21: in every successful build that holds both, the geom_opt section's   *)
(* maxiter equals rem geom_opt_max_cycles: an override that makes them      *)
(* differ (a 'geom_opt' override of maxiter, a 'rem' override of            *)
(* geom_opt_max_cycles) makes the build fail.                               *)
C21_OverrideKeepsCycleCounts ==
    (/\ Succeeded
     /\ last.sections.geom_opt.some
     /\ "maxiter" \in DOMAIN last.sections.geom_opt.d
     /\ "geom_opt_max_cycles" \in DOMAIN last.sections.rem) =>
        last.sections.geom_opt.d["maxiter"] = last.sections.rem["geom_opt_max_cycles"]

(* C22: a rem override of 'method' bypasses the tier table: whatever        *)
(* dft_rung is, the build does not fail on account of it, the final rem has *)
(* the caller's method and nothing derived from the table, the tier-2       *)
(* dispersion keyword included.                                             *)
C22_FunctionalOverrideBypassesTiers ==
    (/\ Built
     /\ OverridesOnly(last.a, "rem")
     /\ DOMAIN last.a.overwrite_inputs[1][2] = {"method"}
     /\ SelectorsSet(last.a) = {}
     /\ ~last.a.nbo_params.some
     /\ ~last.a.new_geom_opt.some
     /\ ~last.a.extra_scf_print) =>
        /\ last.err = NoErr
        /\ last.sections.rem["method"] = last.a.overwrite_inputs[1][2]["method"]
        /\ \A k \in DOMAIN last.sections.rem : Lower(k) /= "dft_d"

(* the job type each preset fixes *)
JobTypeOf(cls) ==
    CASE cls = "SinglePointSet" -> "sp"
      [] cls = "OptSet" -> "opt"
      [] cls = "TransitionStateSet" -> "ts"
      [] cls = "ForceSet" -> "force"
      [] cls = "FreqSet" -> "freq"
      [] cls = "PESScanSet" -> "pes_scan"

(* the last call left what the builder call q leaves *)
SameOutcome(call, q) ==
    /\ last.a = call
    /\ last.sections = q.sections
    /\ last.err = q.err
    /\ last.warns = q.warns
    /\ table = q.tab

(* C23: each of the six presets is a pass-through: for the arguments it     *)
(* accepts (for PESScanSet, those with scan_variables) its sections, or its *)
(* error, and its warnings are those of QChemDictSet called with the        *)
(* preset's job type and the same argument values.                          *)
C23_PresetsPassThrough ==
    (/\ Called
     /\ last.cls \in PresetNames \cup {"PESScanSet"}
     /\ last.cls = "PESScanSet" => last.p.scan_variables.some) =>
        SameOutcome([last.p EXCEPT !.job_type = JobTypeOf(last.cls)],
                    QChemDictSet([last.p EXCEPT !.job_type = JobTypeOf(last.cls)],
                                 last.tab_before))

C23_Witness ==
    /\ Called
    /\ last.cls = "OptSet"
    /\ last.p.new_geom_opt = SomeDict([maxiter |-> "100"])
    /\ last.p.basis_set = "6-31g*"
    /\ last.err = NoErr
    /\ last.sections.rem["job_type"] = "opt"
    /\ last.sections.rem["basis"] = "6-31g*"
    /\ last.sections.rem["geom_opt_max_cycles"] = "100"
    /\ last.sections.geom_opt.d = [maxiter |-> "100"]

(* the value the caller's rem override gives key, None when it gives none *)
RemSupplied(a, key) ==
    IF \E i \in 1..Len(a.overwrite_inputs) :
          /\ a.overwrite_inputs[i][1] = "rem"
          /\ \E k \in DOMAIN a.overwrite_inputs[i][2] : Lower(k) = key
    THEN LET i == CHOOSE i \in 1..Len(a.overwrite_inputs) :
                      /\ a.overwrite_inputs[i][1] = "rem"
                      /\ \E k \in DOMAIN a.overwrite_inputs[i][2] : Lower(k) = key
             d == a.overwrite_inputs[i][2]
         IN d[CHOOSE k \in DOMAIN d : Lower(k) = key]
    ELSE None

(* the decimal value of the convergence strings the calls use *)
Tightness(c) ==
    CASE c = "5" -> 5
      [] c = "9" -> 9
      [] c = "8" -> 8

(* C24: with extra_scf_print every successful build has rem                 *)
(* scf_final_print = "3" and rem scf_convergence = max(c, 8) for the        *)
(* caller's c (8 without one): a tighter value is kept, a looser one        *)
(* becomes exactly 8; without extra_scf_print both keys are as the caller   *)
(* gave them, absent when the caller gave none.                             *)
C24_ExtraScfPrint ==
    Succeeded =>
        LET c == RemSupplied(last.a, "scf_convergence")
            f == RemSupplied(last.a, "scf_final_print")
            rem == last.sections.rem
        IN IF last.a.extra_scf_print
           THEN /\ "scf_final_print" \in DOMAIN rem /\ rem["scf_final_print"] = "3"
                /\ "scf_convergence" \in DOMAIN rem
                /\ rem["scf_convergence"] =
                       IF c = None THEN "8"
                       ELSE IF Tightness(c) < 8 THEN "8" ELSE c
           ELSE /\ IF c = None THEN "scf_convergence" \notin DOMAIN rem
                   ELSE "scf_convergence" \in DOMAIN rem /\ rem["scf_convergence"] = c
                /\ IF f = None THEN "scf_final_print" \notin DOMAIN rem
                   ELSE "scf_final_print" \in DOMAIN rem /\ rem["scf_final_print"] = f

C24_Witness ==
    /\ Succeeded
    /\ last.a.extra_scf_print
    /\ RemSupplied(last.a, "scf_convergence") = "5"
    /\ last.sections.rem["scf_convergence"] = "8"
    /\ last.sections.rem["scf_final_print"] = "3"

(* the rhoiso the call's svp override gives, None when it gives none *)
RhoisoSupplied(a) ==
    IF \E i \in 1..Len(a.overwrite_inputs) :
          /\ a.overwrite_inputs[i][1] = "svp"
          /\ \E k \in DOMAIN a.overwrite_inputs[i][2] : Lower(k) = "rhoiso"
    THEN LET i == CHOOSE i \in 1..Len(a.overwrite_inputs) :
                      /\ a.overwrite_inputs[i][1] = "svp"
                      /\ \E k \in DOMAIN a.overwrite_inputs[i][2] : Lower(k) = "rhoiso"
             d == a.overwrite_inputs[i][2]
         IN d[CHOOSE k \in DOMAIN d : Lower(k) = "rhoiso"]
    ELSE None

(* a CMIRS call whose only override is of the svp section *)
CmirsSvpCall(a) ==
    /\ a.dft_rung \in 1..5
    /\ SelectorsSet(a) = {"cmirs_solvent"}
    /\ a.cmirs_solvent \in SupportedCmirs
    /\ OverridesOnly(a, "svp")
    /\ RhoisoSupplied(a) /= None
    /\ ~a.nbo_params.some
    /\ ~a.new_geom_opt.some
    /\ ~a.extra_scf_print

(* C25: with a cmirs_solvent, an svp override of rhoiso to a value other    *)
(* than "0.001" and "0.0005" fails; an override to a valid v, without a     *)
(* pcm_nonels override, gives svp rhoiso = v and a pcm_nonels section whose *)
(* coefficients equal the static table's non-null entries for (solvent, v), *)
(* delta and gaulag_n keeping their values; in every build of any sequence. *)
C25_RhoisoReselection ==
    (Built /\ CmirsSvpCall(last.a)) =>
        LET v == RhoisoSupplied(last.a)
        IN IF v \notin {Rho001, Rho0005}
           THEN last.err = ErrRhoiso
           ELSE /\ last.err = NoErr
                /\ last.sections.svp["rhoiso"] = v
                /\ \A k \in CoefficientKeys :
                      CMIRS_SETTINGS[last.a.cmirs_solvent][v][k] /= None =>
                          /\ k \in DOMAIN last.sections.pcm_nonels
                          /\ last.sections.pcm_nonels[k] =
                                 CMIRS_SETTINGS[last.a.cmirs_solvent][v][k]
                /\ last.sections.pcm_nonels["delta"] = "7"
                /\ last.sections.pcm_nonels["gaulag_n"] = "40"

(* C26: without a rem override of the key, rem holds geom_opt_max_cycles,   *)
(* as the string form of the argument, if and only if the job type folded   *)
(* to lower case is opt, ts or pes_scan; for sp, force and freq it is       *)
(* absent, with new_geom_opt too.                                           *)
C26_GeomOptMaxCyclesKey ==
    (Succeeded /\ RemSupplied(last.a, "geom_opt_max_cycles") = None) =>
        IF Lower(last.a.job_type) \in {"opt", "ts", "pes_scan"}
        THEN /\ "geom_opt_max_cycles" \in DOMAIN last.sections.rem
             /\ last.sections.rem["geom_opt_max_cycles"] = ToString(last.a.geom_opt_max_cycles)
        ELSE "geom_opt_max_cycles" \notin DOMAIN last.sections.rem

C26_Witness ==
    /\ Succeeded
    /\ last.a.job_type = "force"
    /\ last.a.new_geom_opt.some
    /\ last.sections.rem["geom_opt2"] = "3"
    /\ "geom_opt_max_cycles" \notin DOMAIN last.sections.rem

(* C27: every successful build without overrides has solvation sections     *)
(* consistent with the one selected model: rem solvent_method absent        *)
(* without a model, "pcm" for PCM, "smd" for SMD, "isosvp" for ISOSVP and   *)
(* CMIRS; rem gen_scfman "false" exactly for ISOSVP and CMIRS, "true"       *)
(* otherwise; pcm and solvent non-empty only for PCM, smx only for SMD, svp *)
(* only for ISOSVP and CMIRS, pcm_nonels only for CMIRS.                    *)
C27_SolvationConsistent ==
    (Succeeded /\ last.a.overwrite_inputs = <<>>) =>
        LET S == SelectorsSet(last.a)
            rem == last.sections.rem
        IN /\ Cardinality(S) <= 1
           /\ ("solvent_method" \in DOMAIN rem) <=> (S /= {})
           /\ S = {"pcm_dielectric"} => rem["solvent_method"] = "pcm"
           /\ S = {"smd_solvent"} => rem["solvent_method"] = "smd"
           /\ S = {"isosvp_dielectric"} => rem["solvent_method"] = "isosvp"
           /\ S = {"cmirs_solvent"} => rem["solvent_method"] = "isosvp"
           /\ rem["gen_scfman"] =
                  IF S \in {{"isosvp_dielectric"}, {"cmirs_solvent"}} THEN "false" ELSE "true"
           /\ (last.sections.pcm /= EmptyDict) <=> (S = {"pcm_dielectric"})
           /\ (last.sections.solvent /= EmptyDict) <=> (S = {"pcm_dielectric"})
           /\ (last.sections.smx /= EmptyDict) <=> (S = {"smd_solvent"})
           /\ (last.sections.svp /= EmptyDict) <=>
                  (S \in {{"isosvp_dielectric"}, {"cmirs_solvent"}})
           /\ (last.sections.pcm_nonels /= EmptyDict) <=> (S = {"cmirs_solvent"})

C27_Witness ==
    /\ Succeeded
    /\ last.a.overwrite_inputs = <<>>
    /\ SelectorsSet(last.a) = {"isosvp_dielectric"}
    /\ last.sections.rem["solvent_method"] = "isosvp"
    /\ last.sections.rem["gen_scfman"] = "false"
    /\ last.sections.svp /= EmptyDict
    /\ last.sections.pcm_nonels = EmptyDict

(* overwrite_inputs with the sections at i and i + 1 in the other order *)
Swapped(ov, i) ==
    [j \in 1..Len(ov) |-> IF j = i THEN ov[i + 1] ELSE IF j = i + 1 THEN ov[i] ELSE ov[j]]

(* the builder call q ends as the last call did *)
EndsAlike(q) ==
    /\ q.err = last.err
    /\ q.sections = last.sections
    /\ q.warns = last.warns

(* C28: the result of the override merge does not depend on the order of    *)
(* the sections in overwrite_inputs: the same call with two neighbouring    *)
(* sections in the other order fails with the same error or succeeds with   *)
(* the same sections and the same warnings.                                 *)
C28_MergeOrderIndependent ==
    (Built /\ last.cls = "QChemDictSet") =>
        \A i \in 1..(Len(last.a.overwrite_inputs) - 1) :
            EndsAlike(QChemDictSet(
                [last.a EXCEPT !.overwrite_inputs = Swapped(last.a.overwrite_inputs, i)],
                last.tab_before))

(* the rule a call breaks first in the order of lines 319-410, read off its *)
(* arguments alone; NoErr when it breaks none of them                       *)
FirstBroken(a) ==
    IF a.dft_rung \notin 1..5 THEN ErrDftRung
    ELSE IF solvent_def(a) > 1 THEN ErrSolvation
    ELSE IF a.smd_solvent \in {"custom", "other"} /\ a.custom_smd = None THEN ErrCustomSmd
    ELSE IF a.cmirs_solvent /= None /\ a.cmirs_solvent \notin DOMAIN CMIRS_SETTINGS
    THEN ErrCmirsSolvent
    ELSE IF a.nbo_params.some /\ "version" \in DOMAIN a.nbo_params.d
            /\ a.nbo_params.d["version"] /= PyInt(7)
    THEN ErrNboVersion
    ELSE IF a.new_geom_opt.some /\ "maxiter" \in DOMAIN a.new_geom_opt.d
            /\ a.new_geom_opt.d["maxiter"] /= ToString(a.geom_opt_max_cycles)
    THEN ErrMaxiter
    ELSE NoErr

(* the rem keywords that only steps after the one raising e write *)
WrittenLater(e) ==
    CASE e = ErrDftRung -> {"geom_opt_max_cycles", "solvent_method", "nbo", "geom_opt2"}
      [] e = ErrSolvation -> {"solvent_method", "nbo", "geom_opt2"}
      [] e \in {ErrCustomSmd, ErrCmirsSolvent} -> {"nbo", "geom_opt2"}
      [] e = ErrNboVersion -> {"geom_opt2"}
      [] OTHER -> {}

(* the first section of overwrite_inputs that names a feature the call did  *)
(* not turn on, "" when there is none                                       *)
FirstFeatureless(a) ==
    LET ov == a.overwrite_inputs
        bad == {i \in 1..Len(ov) : \/ ov[i][1] = "nbo" /\ ~a.nbo_params.some
                                   \/ ov[i][1] = "geom_opt" /\ ~a.new_geom_opt.some}
    IN IF bad = {} THEN ""
       ELSE ov[CHOOSE i \in bad : \A j \in bad : i <= j][1]

(* C29: a call that breaks several rules reports the error of the earliest  *)
(* step in the fixed order tier, conflicting solvation, custom SMD, CMIRS   *)
(* solvent, NBO version, maxiter mismatch, then the overrides in the        *)
(* iteration order of overwrite_inputs, and no later step has run: the rem  *)
(* keywords of later steps are absent, no warning was issued, the solvent   *)
(* table is untouched by the merge and, before the optimizer step, so is    *)
(* the caller's new_geom_opt.                                               *)
C29_EarliestErrorReported ==
    (Built /\ last.cls = "QChemDictSet") =>
        /\ FirstBroken(last.a) /= NoErr =>
              /\ last.err = FirstBroken(last.a)
              /\ WrittenLater(last.err) \cap DOMAIN last.locals.rem = {}
              /\ last.warns = {}
              /\ ~last.handed
              /\ last.err /= ErrMaxiter => heap.ngo.d = last.a.new_geom_opt.d
              /\ last.a.cmirs_solvent = None => table = last.tab_before
        /\ (FirstBroken(last.a) = NoErr /\ FirstFeatureless(last.a) = "nbo"
                /\ \A i \in 1..Len(last.a.overwrite_inputs) :
                      last.a.overwrite_inputs[i][1] \in {"nbo", "geom_opt"})
              => last.err = ErrNoNbo
        /\ (FirstBroken(last.a) = NoErr /\ FirstFeatureless(last.a) = "geom_opt"
                /\ \A i \in 1..Len(last.a.overwrite_inputs) :
                      last.a.overwrite_inputs[i][1] \in {"nbo", "geom_opt"})
              => last.err = ErrNoGeomOpt

(* a call broke the NBO-version rule and the maxiter rule at once; the NBO  *)
(* error was reported                                                       *)
C29_Witness ==
    /\ Built
    /\ last.cls = "QChemDictSet"
    /\ last.a.nbo_params.some
    /\ last.a.new_geom_opt.some
    /\ "maxiter" \in DOMAIN last.a.new_geom_opt.d
    /\ last.a.new_geom_opt.d["maxiter"] /= ToString(last.a.geom_opt_max_cycles)
    /\ last.err = ErrNboVersion

(* C30: in a sequence of builds handed the same new_geom_opt mapping, in    *)
(* which the caller never put a 'maxiter' key, no build fails with the      *)
(* cycle-count mismatch and each build's geom_opt maxiter is the string     *)
(* form of its own geom_opt_max_cycles.  heap.ngo_src is the mapping as the *)
(* caller wrote it.                                                         *)
C30_SharedOptimizerMapping ==
    (/\ Built
     /\ last.a.new_geom_opt.some
     /\ heap.ngo_src.some
     /\ "maxiter" \notin DOMAIN heap.ngo_src.d
     /\ last.a.overwrite_inputs = <<>>)
        => /\ last.err /= ErrMaxiter
           /\ last.err = NoErr =>
                 /\ last.sections.geom_opt.some
                 /\ "maxiter" \in DOMAIN last.sections.geom_opt.d
                 /\ last.sections.geom_opt.d["maxiter"] = ToString(last.a.geom_opt_max_cycles)

-----------------------------------------------------------------------------
(* Properties of concurrent calls (SpecThreads) *)

(* C4: under every interleaving of two uncoordinated calls, each finished   *)
(* call holds the sections (and the error) its arguments give when the call *)
(* runs alone against the table as loaded.                                  *)
C4_ConcurrentBuildsIndependent ==
    \A t \in DOMAIN thr :
        thr[t].at = "done" =>
            /\ thr[t].sections = QChemDictSet(thr[t].m.a, CMIRS_SETTINGS).sections
            /\ thr[t].m.err = QChemDictSet(thr[t].m.a, CMIRS_SETTINGS).err

====
